---- MODULE Spec2Model ----
(***************************************************************************)
(* Two-endmember mixture resolver of nir-parser (src/src/base/predict.py): *)
(* the Residual Model (_calculate_ssr), the Mixture Resolver               *)
(* (_find_optimal_mixture) and the Batch Driver (main).                    *)
(*                                                                         *)
(* Numbers.  A number is a pair <<n, d>>: the rational n/d when d > 0, and *)
(* the IEEE specials when d = 0 (<<0,0>> NaN, <<1,0>> +inf, <<-1,0>> -inf). *)
(* Feature values are integers counted in units of 4e-9, so the epsilon of *)
(* the Residual Model (1e-9) is a quarter of a unit.  The residual is a    *)
(* ratio, so the unit matters only for the comparison with epsilon.        *)
(*                                                                         *)
(* Mixture fractions are floats of a small binary format: MantBits bits of *)
(* significand, spacing 2^-GridBits at the bottom.  The subtraction        *)
(* 1.0 - a1 rounds to nearest, ties to even, as the float subtraction of   *)
(* the code does; products, sums and quotients over feature values are     *)
(* carried exactly.                                                        *)
(*                                                                         *)
(* Tables.  A pandas Series is a function from column labels to values; a  *)
(* table is its set of feature column labels and its sequence of rows.     *)
(* The identifier column (column 0) is the field id of a sample row; the   *)
(* identifier column of the endmember table is never read by the code      *)
(* (iloc[.., 1:]) and is left out.                                         *)
(***************************************************************************)
EXTENDS Integers, Sequences, FiniteSets, TLC

VARIABLES pc, endmembers, df, index, results, origin, log, written, a1_arg, ret

vars == <<pc, endmembers, df, index, results, origin, log, written, a1_arg, ret>>

(***************************************************************************)
(* Bounds of the model.                                                    *)
(***************************************************************************)
\* significand bits of the float format of the mixture fractions
MantBits == 1
\* the smallest positive fraction is 2^-GridBits
GridBits == 2
\* feature values of the function-level specifications range over -1..MaxVal
MaxVal == 1
\* the sample table of the batch has at most MaxRows rows
MaxRows == 2
\* the endmember table of the batch has at most MaxEndRows rows
MaxEndRows == 3

(***************************************************************************)
(* Exact arithmetic on numbers.                                            *)
(***************************************************************************)
RECURSIVE GCD(_, _)
GCD(a, b) == IF b = 0 THEN a ELSE GCD(b, a % b)

IAbs(n) == IF n < 0 THEN 0 - n ELSE n

Sign(n) == IF n < 0 THEN 0 - 1 ELSE IF n > 0 THEN 1 ELSE 0

NaN == <<0, 0>>

Zero == <<0, 1>>

One == <<1, 1>>

Num(n) == <<n, 1>>

IsNaN(x) == x[1] = 0 /\ x[2] = 0

IsFinite(x) == x[2] > 0

\* n/d in lowest terms with a positive denominator; d = 0 gives inf or NaN
Norm(n, d) ==
    IF d = 0 THEN <<Sign(n), 0>>
    ELSE LET g == GCD(IAbs(n), IAbs(d))
             s == Sign(d)
         IN  <<(s * n) \div g, (s * d) \div g>>

RAdd(x, y) ==
    IF IsNaN(x) \/ IsNaN(y) THEN NaN
    ELSE IF x[2] = 0 /\ y[2] = 0 THEN (IF x[1] = y[1] THEN x ELSE NaN)
    ELSE IF x[2] = 0 THEN x
    ELSE IF y[2] = 0 THEN y
    ELSE Norm(x[1] * y[2] + y[1] * x[2], x[2] * y[2])

RNeg(x) == <<0 - x[1], x[2]>>

RSub(x, y) == RAdd(x, RNeg(y))

RMul(x, y) ==
    IF IsNaN(x) \/ IsNaN(y) THEN NaN
    ELSE IF x[2] = 0 \/ y[2] = 0 THEN <<Sign(x[1]) * Sign(y[1]), 0>>
    ELSE Norm(x[1] * y[1], x[2] * y[2])

\* x / y as numpy divides float64 scalars: x/0 is +-inf, 0/0 is nan, no exception
RDiv(x, y) ==
    IF IsNaN(x) \/ IsNaN(y) THEN NaN
    ELSE IF y[2] = 0 THEN (IF x[2] = 0 THEN NaN ELSE Zero)
    ELSE IF y[1] = 0 THEN <<Sign(x[1]), 0>>
    ELSE IF x[2] = 0 THEN <<Sign(x[1]) * Sign(y[1]), 0>>
    ELSE Norm(x[1] * y[2], x[2] * y[1])

RAbs(x) == <<IAbs(x[1]), x[2]>>

\* x > y; False when either is NaN
RGt(x, y) == ~IsNaN(x) /\ ~IsNaN(y) /\ x[1] * y[2] > y[1] * x[2]

RLe(x, y) == ~IsNaN(x) /\ ~IsNaN(y) /\ x[1] * y[2] <= y[1] * x[2]

(***************************************************************************)
(* The float format of the mixture fractions.                              *)
(***************************************************************************)
RECURSIVE Pow2(_)
Pow2(n) == IF n = 0 THEN 1 ELSE 2 * Pow2(n - 1)

Scale == Pow2(GridBits)

RECURSIVE BitLen(_)
BitLen(k) == IF k = 0 THEN 0 ELSE 1 + BitLen(k \div 2)

\* k >= 0 rounded to MantBits significant bits, to nearest, ties to even
RoundSig(k) ==
    IF BitLen(k) <= MantBits THEN k
    ELSE LET u == Pow2(BitLen(k) - MantBits)
             q == k \div u
             r == k % u
             h == u \div 2
         IN  IF r > h \/ (r = h /\ q % 2 = 1) THEN (q + 1) * u ELSE q * u

\* the float nearest to k / Scale
Fl(k) == Norm(Sign(k) * RoundSig(IAbs(k)), Scale)

\* the numerator over Scale of a number whose denominator divides Scale
OnGrid(x) == x[1] * (Scale \div x[2])

IsFloat(k) == RoundSig(IAbs(k)) = IAbs(k)

\* float subtraction and addition of two floats
float_sub(x, y) == Fl(OnGrid(RSub(x, y)))

float_add(x, y) == Fl(OnGrid(RAdd(x, y)))

\* the floats k / Scale with lo <= k <= hi
Floats(lo, hi) == {Norm(k, Scale) : k \in {j \in lo..hi : IsFloat(j)}}

(***************************************************************************)
(* pandas Series over column labels.                                       *)
(***************************************************************************)
\* a cell of the sample table: a number or a text
NumCell(n) == <<"num", n>>

StrCell == <<"str", 0>>

IsStr(c) == c[1] = "str"

\* the value a cell takes in arithmetic once the operation has not raised:
\* a text is only ever paired with a missing label, and is masked to NaN
CellNum(c) == IF IsStr(c) THEN NaN ELSE Num(c[2])

\* s * a for a Series s and a scalar a
series_mul(s, a) == [c \in DOMAIN s |-> RMul(s[c], a)]

\* s (op) t: pandas aligns both operands on the union of their labels and
\* fills the labels one of them lacks with NaN
series_add(s, t) ==
    [c \in DOMAIN s \cup DOMAIN t |->
        IF c \in DOMAIN s /\ c \in DOMAIN t THEN RAdd(s[c], t[c]) ELSE NaN]

series_sub(s, t) ==
    [c \in DOMAIN s \cup DOMAIN t |->
        IF c \in DOMAIN s /\ c \in DOMAIN t THEN RSub(s[c], t[c]) ELSE NaN]

series_div(s, t) ==
    [c \in DOMAIN s \cup DOMAIN t |->
        IF c \in DOMAIN s /\ c \in DOMAIN t THEN RDiv(s[c], t[c]) ELSE NaN]

\* faulty variant: the quotient is taken for every feature, no guard on the denominator
np_where_unguarded(cond, x) == x

\* np.where(cond, x, 0) elementwise
np_where(cond, x) == [c \in DOMAIN x |-> IF cond[c] THEN x[c] ELSE Zero]

np_square(x) == [c \in DOMAIN x |-> RMul(x[c], x[c])]

RECURSIVE SumOver(_, _)
SumOver(x, S) ==
    IF S = {} THEN Zero
    ELSE LET c == CHOOSE e \in S : TRUE
         IN  RAdd(x[c], SumOver(x, S \ {c}))

np_sum(x) == SumOver(x, DOMAIN x)

\* faulty variant: the candidate is used as given
np_clip_none(a, lo, hi) == a

\* np.clip(a, lo, hi)
np_clip(a, lo, hi) == IF RGt(lo, a) THEN lo ELSE IF RGt(a, hi) THEN hi ELSE a

(***************************************************************************)
(* Residual Model: _calculate_ssr.                                         *)
(***************************************************************************)
\* epsilon = 1e-9, a quarter of a unit of the feature values
epsilon == <<1, 4>>

\* endmembers_df.iloc[r, 1:] (r counted from 1 here)
endmember_params(endmembers_df, r) ==
    [c \in endmembers_df.cols |-> Num(endmembers_df.rows[r][c])]

\* data.iloc[1:]
data_params(data) == [c \in DOMAIN data.vals |-> CellNum(data.vals[c])]

\* faulty variant: the two fractions weigh the wrong endmembers
predicted_params_swapped(a1, a2, endmembers_df) ==
    series_add(series_mul(endmember_params(endmembers_df, 1), a2),
               series_mul(endmember_params(endmembers_df, 2), a1))

\* endmember1_params * a1 + endmember2_params * a2
predicted_params(a1, a2, endmembers_df) ==
    series_add(series_mul(endmember_params(endmembers_df, 1), a1),
               series_mul(endmember_params(endmembers_df, 2), a2))

\* (data_params + predicted_params) / 2
denominator(d, p) == series_mul(series_add(d, p), <<1, 2>>)

\* np.where(np.abs(denominator) > epsilon, (predicted - data) / denominator, 0)
residuals(d, p) ==
    LET den == denominator(d, p)
    IN  np_where([c \in DOMAIN den |-> RGt(RAbs(den[c]), epsilon)],
                 series_div(series_sub(p, d), den))

\* the exception _calculate_ssr raises on these tables, or "none":
\* IndexError from iloc[0, 1:] / iloc[1, 1:] when the endmember table has
\* fewer than 2 rows, TypeError from data_params + predicted_params when a
\* text cell meets a number under the same label
ssr_exception(data, endmembers_df) ==
    IF Len(endmembers_df.rows) < 2 THEN "IndexError"
    ELSE IF \E c \in DOMAIN data.vals \cap endmembers_df.cols : IsStr(data.vals[c])
         THEN "TypeError"
    ELSE "none"

\* the value _calculate_ssr returns when it does not raise
calculate_ssr(a1, data, endmembers_df) ==
    LET a1c == np_clip(a1, Zero, One)
        a2  == float_sub(One, a1c)
        p   == predicted_params(a1c, a2, endmembers_df)
    IN  np_sum(np_square(residuals(data_params(data), p)))

(***************************************************************************)
(* Mixture Resolver: _find_optimal_mixture.                                *)
(***************************************************************************)
\* minimize_scalar(_calculate_ssr, bounds=(0, 1), args=(data, endmembers_df),
\* method="bounded"): SciPy's bounded minimizer is not part of the
\* repository.  What the code relies on is its contract: result.x is a float
\* within the bounds and result.fun is the objective at result.x;
\* minimize_scalar is the set of results it may return.

\* faulty variant: the search is not confined to the bounds
minimize_scalar_unbounded(data, endmembers_df) ==
    {[x |-> x, fun |-> calculate_ssr(x, data, endmembers_df)] :
        x \in Floats(0 - 1, Scale + 1)}

\* any float of [0, 1] with the objective's value there
minimize_scalar(data, endmembers_df) ==
    {[x |-> x, fun |-> calculate_ssr(x, data, endmembers_df)] : x \in Floats(0, Scale)}

\* the tuple _find_optimal_mixture returns for the optimizer's result
find_optimal_mixture(result, endmembers_df) ==
    LET a1_optimal == result.x
        a2_optimal == float_sub(One, a1_optimal)
    IN  [a1      |-> a1_optimal,
         a2      |-> a2_optimal,
         ssr     |-> result.fun,
         mixture |-> predicted_params(a1_optimal, a2_optimal, endmembers_df)]

(***************************************************************************)
(* Inputs of the function-level specifications.                            *)
(***************************************************************************)
\* labels a feature column may carry
FeatNames == {"f1", "a1"}

Vals == (0 - 1)..MaxVal

Cells == {NumCell(v) : v \in Vals} \cup {StrCell}

\* 2-row endmember tables over any feature columns
FnEndTables ==
    UNION {[cols : {C}, rows : [1..2 -> [C -> Vals]]] : C \in SUBSET FeatNames}

\* sample rows over any feature columns
FnRows == UNION {[id : {0}, vals : [C -> Cells]] : C \in SUBSET FeatNames}

\* candidate fractions the optimizer may hand to the objective: the floats
\* from one step below 0 to one step above 1
A1Candidates == Floats(0 - 1, Scale + 1)

Pending == [exc |-> "pending"]

\* no table read yet, no file written yet
NoTable == [cols |-> {}, rows |-> <<>>]

NoFile == [exists |-> FALSE, table |-> <<>>]

(***************************************************************************)
(* SpecSSR: one call of _calculate_ssr(a1_arg, df.rows[1], endmembers).    *)
(***************************************************************************)
InitSSR ==
    /\ pc = "ssr"
    /\ endmembers \in FnEndTables
    /\ \E row \in FnRows : df = [cols |-> DOMAIN row.vals, rows |-> <<row>>]
    /\ a1_arg \in A1Candidates
    /\ index = 0
    /\ results = <<>>
    /\ origin = <<>>
    /\ log = <<>>
    /\ written = NoFile
    /\ ret = Pending

CallSSR ==
    /\ pc = "ssr"
    /\ pc' = "returned"
    /\ ret' = LET exc == ssr_exception(df.rows[1], endmembers)
              IN  IF exc # "none" THEN [exc |-> exc]
                  ELSE [exc |-> "none",
                        val |-> calculate_ssr(a1_arg, df.rows[1], endmembers)]
    /\ UNCHANGED <<endmembers, df, index, results, origin, log, written, a1_arg>>

NextSSR == CallSSR

SpecSSR == InitSSR /\ [][NextSSR]_vars

(***************************************************************************)
(* SpecResolve: one call of _find_optimal_mixture(df.rows[1], endmembers). *)
(***************************************************************************)
InitResolve ==
    /\ pc = "resolve"
    /\ endmembers \in FnEndTables
    /\ \E row \in FnRows : df = [cols |-> DOMAIN row.vals, rows |-> <<row>>]
    /\ a1_arg = Zero
    /\ index = 0
    /\ results = <<>>
    /\ origin = <<>>
    /\ log = <<>>
    /\ written = NoFile
    /\ ret = Pending

CallResolve ==
    /\ pc = "resolve"
    /\ pc' = "returned"
    /\ LET exc == ssr_exception(df.rows[1], endmembers)
       IN  IF exc # "none" THEN ret' = [exc |-> exc]
           ELSE \E result \in minimize_scalar(df.rows[1], endmembers) :
                    ret' = [exc |-> "none",
                            out |-> find_optimal_mixture(result, endmembers)]
    /\ UNCHANGED <<endmembers, df, index, results, origin, log, written, a1_arg>>

NextResolve == CallResolve

SpecResolve == InitResolve /\ [][NextResolve]_vars

(***************************************************************************)
(* Batch Driver: main.                                                     *)
(***************************************************************************)
\* sample identifiers (values of column 0)
Ids == {0, 5}

\* feature columns of the tables the batch reads
BatchCols == {{"f1"}, {"f1", "a1"}}

\* endmember tables of 0..MaxEndRows rows
BatchEndTables ==
    UNION {[cols : {C}, rows : [1..n -> {[c \in C |-> v] : v \in {1, 2}}]] :
              C \in BatchCols, n \in 0..MaxEndRows}

\* sample tables (second sheet of results.xlsx) of 0..MaxRows rows
BatchSampleTables ==
    UNION {[cols : {C},
            rows : [1..n -> [id : Ids, vals : [C -> {NumCell(1), StrCell}]]]] :
              C \in BatchCols, n \in 0..MaxRows}

\* len(_endmembers) > 2
too_many_endmembers(_endmembers) == Len(_endmembers.rows) > 2

\* faulty variant: only a sample table with too few feature columns is refused
parameters_mismatch_fewer(_df, _endmembers) ==
    Cardinality(_df.cols) < Cardinality(_endmembers.cols)

\* len(_df.columns[1:]) != len(_endmembers.columns[1:])
parameters_mismatch(_df, _endmembers) ==
    Cardinality(_df.cols) # Cardinality(_endmembers.cols)

\* the dict literal {"id": .., "a1": .., "a2": .., "ssr": .., **mixture}:
\* a later key replaces an earlier equal key
loc_results(row, out) ==
    LET base == [k \in {"id", "a1", "a2", "ssr"} |->
                    CASE k = "id" -> Num(row.id)
                      [] k = "a1" -> out.a1
                      [] k = "a2" -> out.a2
                      [] OTHER    -> out.ssr]
    IN  [k \in DOMAIN base \cup DOMAIN out.mixture |->
            IF k \in DOMAIN out.mixture THEN out.mixture[k] ELSE base[k]]

\* faulty variant: the list is rebuilt from the new record alone
list_append_replace(l, x) == <<x>>

\* faulty variant: the new record is put in front
list_append_front(l, x) == <<x>> \o l

\* results.append(x)
list_append(l, x) == Append(l, x)

\* the row name in "Failed to process row {index}": the label iterrows()
\* yields, which is the row's position in the table read by read_excel
logged_row(idx, row) == idx

Init ==
    /\ pc = "start"
    /\ endmembers = NoTable
    /\ df = NoTable
    /\ index = 0
    /\ results = <<>>
    /\ origin = <<>>
    /\ log = <<>>
    /\ written = NoFile
    /\ a1_arg = Zero
    /\ ret = Pending

\* _endmembers = pd.read_excel(..); more than 2 rows: error and return
ReadEndmembers ==
    /\ pc = "start"
    /\ \E t \in BatchEndTables :
          /\ endmembers' = t
          /\ IF too_many_endmembers(t)
             THEN /\ log' = Append(log, [level |-> "error", what |-> "too many endmembers"])
                  /\ pc' = "aborted"
             ELSE /\ log' = log
                  /\ pc' = "read_samples"
    /\ UNCHANGED <<df, index, results, origin, written, a1_arg, ret>>

\* the second sheet of results.xlsx: missing, or read and its feature-column
\* count compared with the endmember table's
ReadSamples ==
    /\ pc = "read_samples"
    /\ \/ /\ log' = Append(log, [level |-> "error", what |-> "no second sheet"])
          /\ pc' = "aborted"
          /\ df' = df
       \/ \E t \in BatchSampleTables :
             /\ df' = t
             /\ IF parameters_mismatch(t, endmembers)
                THEN /\ log' = Append(log, [level |-> "error", what |-> "parameters mismatch"])
                     /\ pc' = "aborted"
                ELSE /\ log' = log
                     /\ pc' = "loop"
    /\ UNCHANGED <<endmembers, index, results, origin, written, a1_arg, ret>>

\* one iteration of the loop over _df.iterrows(): the row at position index.
\* origin records, for each appended record, the position of its row and the
\* tuple the resolver returned for it.
ProcessRow ==
    /\ pc = "loop"
    /\ index < Len(df.rows)
    /\ LET row == df.rows[index + 1]
           exc == ssr_exception(row, endmembers)
       IN  IF exc # "none"
           THEN /\ log' = Append(log, [level |-> "error", what |-> "row failed",
                                       row |-> logged_row(index, row),
                                       position |-> index, exc |-> exc])
                /\ UNCHANGED <<results, origin>>
           ELSE /\ \E result \in minimize_scalar(row, endmembers) :
                      LET out == find_optimal_mixture(result, endmembers)
                      IN  /\ results' = list_append(results, loc_results(row, out))
                          /\ origin' = list_append(origin, [position |-> index, out |-> out])
                /\ log' = log
    /\ index' = index + 1
    /\ UNCHANGED <<pc, endmembers, df, written, a1_arg, ret>>

\* pd.DataFrame(results).to_excel(.. "results_predicted.xlsx")
WriteResults ==
    /\ pc = "loop"
    /\ index = Len(df.rows)
    /\ written' = [exists |-> TRUE, table |-> results]
    /\ pc' = "done"
    /\ UNCHANGED <<endmembers, df, index, results, origin, log, a1_arg, ret>>

Next == ReadEndmembers \/ ReadSamples \/ ProcessRow \/ WriteResults

Spec == Init /\ [][Next]_vars

(***************************************************************************)
(* Properties of the Batch Driver, checked under Spec.                     *)
(***************************************************************************)
\* the resolve of the row at 1-based place j fails
RowFails(j) == ssr_exception(df.rows[j], endmembers) # "none"

\* places of the rows among the first n whose resolve succeeds
SucceededUpTo(n) == {j \in 1..n : ~RowFails(j)}

\* places of the rows the appended records come from
RecordedPlaces == {origin[k].position + 1 : k \in 1..Len(origin)}

RowEntries == {k \in 1..Len(log) : log[k].what = "row failed"}

\* C1: once validation has passed, the loop visits every row whatever rows
\* fail, and the records are exactly one per row whose resolve succeeded:
\* after index rows, the records come from the succeeded rows among them, one
\* each; the table is written only after the last row and holds
\* (rows - failed rows) records.
C1_OneRecordPerResolvedRow ==
    /\ pc \in {"loop", "done"} =>
          /\ index <= Len(df.rows)
          /\ Len(origin) = Len(results)
          /\ RecordedPlaces = SucceededUpTo(index)
          /\ Len(results) = Cardinality(SucceededUpTo(index))
          /\ Cardinality(RowEntries) = index - Len(results)
    /\ pc = "done" =>
          /\ index = Len(df.rows)
          /\ written.exists
          /\ Len(written.table) =
                Len(df.rows) - Cardinality({j \in 1..Len(df.rows) : RowFails(j)})
    /\ pc = "loop" => ~written.exists

\* C1 witness: a finished run in which a failed row precedes a resolved one
C1_Witness ==
    /\ pc = "done"
    /\ Len(df.rows) = 2
    /\ RowFails(1)
    /\ ~RowFails(2)
    /\ Len(written.table) = 1

\* C2 as stated: with an endmember table of any row count other than 2 the
\* run is aborted at validation, so no sample row is handed to the resolver
\* (the loop never advances), no record is created and no result table is
\* written.
C2_AbortUnlessTwoEndmembers ==
    (pc # "start" /\ Len(endmembers.rows) # 2) =>
        /\ index = 0
        /\ results = <<>>
        /\ ~written.exists

\* C3: a sample table whose feature-column count differs from the endmember
\* table's aborts the run before the loop: no row is handed to the resolver
\* and no result table is written.
C3_AbortOnParameterMismatch ==
    (pc \notin {"start", "read_samples"}
        /\ Cardinality(df.cols) # Cardinality(endmembers.cols)) =>
        /\ pc = "aborted"
        /\ index = 0
        /\ results = <<>>
        /\ origin = <<>>
        /\ RowEntries = {}
        /\ ~written.exists

\* C3 witness: a run aborted on a sample table of 2 feature columns against
\* 2 endmembers of 1 feature column
C3_Witness ==
    /\ pc = "aborted"
    /\ Len(endmembers.rows) = 2
    /\ Len(df.rows) > 0
    /\ Cardinality(df.cols) = 2
    /\ Cardinality(endmembers.cols) = 1

\* C4: the records appear in the order of their sample rows: record k is the
\* record of the row at origin[k].position, these positions increase with k,
\* and the written table keeps that order.
C4_RecordsInInputOrder ==
    /\ \A k \in 1..Len(origin) :
          /\ k <= Len(results)
          /\ results[k] = loc_results(df.rows[origin[k].position + 1], origin[k].out)
    /\ \A k1, k2 \in 1..Len(origin) :
          k1 < k2 => origin[k1].position < origin[k2].position
    /\ pc = "done" => written.table = results

\* C4 witness: a written table of two records with different identifiers
C4_Witness ==
    /\ pc = "done"
    /\ Len(written.table) = 2
    /\ df.rows[1].id # df.rows[2].id
    /\ written.table[1]["id"] = Num(df.rows[1].id)
    /\ written.table[2]["id"] = Num(df.rows[2].id)

\* C5 as stated (on a valid endmember table of 2 rows): the diagnostic entry
\* of a failed row names the row's identifier, the value of its first column.
C5_DiagnosticNamesRowId ==
    Len(endmembers.rows) = 2 =>
        \A k \in RowEntries : log[k].row = df.rows[log[k].position + 1].id

\* C10 as stated: every appended record holds the row's identifier as id, the
\* a1, a2 and ssr the resolver returned for the row (ssr the Residual Model's
\* value at that a1), and one entry per feature column with the value
\* a1*e1_i + a2*e2_i, whatever the feature columns are called.
C10_RecordFields ==
    \A k \in 1..Len(results) :
        LET rec == results[k]
            row == df.rows[origin[k].position + 1]
            out == origin[k].out
        IN  /\ DOMAIN rec = {"id", "a1", "a2", "ssr"} \cup endmembers.cols
            /\ Cardinality(DOMAIN rec) = 4 + Cardinality(endmembers.cols)
            /\ rec["id"] = Num(row.id)
            /\ rec["a1"] = out.a1
            /\ rec["a2"] = out.a2
            /\ rec["ssr"] = out.ssr
            /\ out.ssr = calculate_ssr(out.a1, row, endmembers)
            /\ \A c \in endmembers.cols :
                  rec[c] = RAdd(RMul(Num(endmembers.rows[1][c]), out.a1),
                                RMul(Num(endmembers.rows[2][c]), out.a2))

(***************************************************************************)
(* Properties of the Residual Model, checked under SpecSSR.                *)
(***************************************************************************)
\* the arguments of the call under SpecSSR and SpecResolve
TheRow == df.rows[1]

AllNumeric(row) == \A c \in DOMAIN row.vals : ~IsStr(row.vals[c])

\* min(1, max(0, a1))
Clamped(a1) == IF a1[1] < 0 THEN Zero ELSE IF a1[1] > a1[2] THEN One ELSE a1

\* predicted vector and normalization denominators at the clamped a1_arg
PredAtArg ==
    LET a1c == Clamped(a1_arg)
    IN  series_add(series_mul(endmember_params(endmembers, 1), a1c),
                   series_mul(endmember_params(endmembers, 2), float_sub(One, a1c)))

DenAtArg == [c \in DOMAIN PredAtArg \cup DOMAIN TheRow.vals |->
                IF c \in DOMAIN PredAtArg /\ c \in DOMAIN TheRow.vals
                THEN RMul(RAdd(CellNum(TheRow.vals[c]), PredAtArg[c]), <<1, 2>>)
                ELSE NaN]

\* the features whose denominator exceeds epsilon in absolute value
Regular == {c \in DOMAIN DenAtArg : RGt(RAbs(DenAtArg[c]), epsilon)}

SquaredTerm == [c \in Regular |->
    LET r == RDiv(RSub(PredAtArg[c], CellNum(TheRow.vals[c])), DenAtArg[c])
    IN  RMul(r, r)]

\* C7: for numeric d, e1, e2 and any candidate a1, _calculate_ssr does not
\* raise and returns a finite, non-negative number, which is the sum of the
\* squared relative residuals of the features whose denominator exceeds
\* epsilon in absolute value: every other feature (denominator 0, at most
\* epsilon, or undefined) contributes exactly 0.
C7_SsrNonNegativeNoRaise ==
    (pc = "returned" /\ AllNumeric(TheRow)) =>
        /\ ret.exc = "none"
        /\ IsFinite(ret.val)
        /\ RLe(Zero, ret.val)
        /\ ret.val = SumOver(SquaredTerm, Regular)

\* C7 witness: a feature with d_i = p_i = 0 next to a feature that contributes
C7_Witness ==
    /\ pc = "returned"
    /\ AllNumeric(TheRow)
    /\ ret.exc = "none"
    /\ RGt(ret.val, Zero)
    /\ \E c \in DOMAIN TheRow.vals \cap endmembers.cols :
          TheRow.vals[c] = NumCell(0) /\ PredAtArg[c] = Zero

C6_FractionsSumToOne ==
    (pc = "returned" /\ ret.exc = "none") =>
        /\ RLe(Zero, ret.out.a1)
        /\ RLe(ret.out.a1, One)
        /\ ret.out.a2 = float_sub(One, ret.out.a1)
        /\ float_add(ret.out.a1, ret.out.a2) = One

\* C6 witness: a fraction whose complement was rounded by the subtraction
C6_Witness ==
    /\ pc = "returned"
    /\ ret.exc = "none"
    /\ endmembers.cols # {}
    /\ RGt(ret.out.a1, Zero)
    /\ ret.out.a2 # RSub(One, ret.out.a1)

\* the sample vector equals endmember r exactly (same labels, same values)
RowIsEndmember(r) ==
    /\ DOMAIN TheRow.vals = endmembers.cols
    /\ endmembers.cols # {}
    /\ \A c \in endmembers.cols : TheRow.vals[c] = NumCell(endmembers.rows[r][c])

Objective(x) == calculate_ssr(x, TheRow, endmembers)

\* the returned a1 minimizes the Residual Model over the floats of [0, 1]
ReturnedMinimizer ==
    /\ pc = "returned"
    /\ ret.exc = "none"
    /\ \A y \in Floats(0, Scale) : RLe(ret.out.ssr, Objective(y))

\* C8 as stated: d = e1 gives a1 = 1, a2 = 0, ssr = 0 and d = e2 gives
\* a1 = 0, a2 = 1, ssr = 0, whenever the returned a1 is a minimizer.  It is
\* stated here for two different endmembers only (with e1 = e2 it would ask
\* for a1 = 1 and a1 = 0 at once).
C8_AsStated ==
    endmembers.rows[1] # endmembers.rows[2] =>
        /\ (ReturnedMinimizer /\ RowIsEndmember(1)) =>
              (ret.out.a1 = One /\ ret.out.a2 = Zero /\ ret.out.ssr = Zero)
        /\ (ReturnedMinimizer /\ RowIsEndmember(2)) =>
              (ret.out.a1 = Zero /\ ret.out.a2 = One /\ ret.out.ssr = Zero)

\* C8 amended: for d = e1 the Residual Model is 0 at a1 = 1, and for d = e2
\* it is 0 at a1 = 0, so a returned minimizer has ssr = 0 and a1 = 1
\* (resp. a1 = 0) is a minimizer; the returned a1 is 1 (resp. 0) when no
\* other fraction of [0, 1] has residual 0.
C8_EndmemberHasZeroResidual ==
    /\ (pc = "returned" /\ ret.exc = "none" /\ RowIsEndmember(1)) =>
          /\ Objective(One) = Zero
          /\ ReturnedMinimizer => ret.out.ssr = Zero
          /\ (ReturnedMinimizer /\ \A y \in Floats(0, Scale) \ {One} : Objective(y) # Zero)
                => (ret.out.a1 = One /\ ret.out.a2 = Zero)
    /\ (pc = "returned" /\ ret.exc = "none" /\ RowIsEndmember(2)) =>
          /\ Objective(Zero) = Zero
          /\ ReturnedMinimizer => ret.out.ssr = Zero
          /\ (ReturnedMinimizer /\ \A y \in Floats(0, Scale) \ {Zero} : Objective(y) # Zero)
                => (ret.out.a1 = Zero /\ ret.out.a2 = One)

\* C8 witness: d = e1 with e1 # e2, resolved to the only minimizer a1 = 1
C8_Witness ==
    /\ ReturnedMinimizer
    /\ RowIsEndmember(1)
    /\ ~RowIsEndmember(2)
    /\ \A y \in Floats(0, Scale) \ {One} : Objective(y) # Zero
    /\ ret.out.a1 = One
    /\ ret.out.a2 = Zero
    /\ ret.out.ssr = Zero

====
